---- MODULE Spec2Model ----
(***************************************************************************)
(* Block-Jump (src/game.js): the simulation core of the endless runner.    *)
(*                                                                         *)
(* All lengths and velocities are integers in tenths of a pixel, so that   *)
(* gravity (0.8), the speed increment (0.5) and the cloud drift            *)
(* (cloud.speed * speed) are exact.  No comparison of the code sits on a   *)
(* value that binary floating point would round to the other side.        *)
(***************************************************************************)
EXTENDS Integers, Sequences, FiniteSets, TLC

(* ---- program constants (tenths of a pixel) ---- *)
groundY == 2600
dinoX == 500
dinoWidth == 400
dinoHeight == 400
gravity == 8
jumpVy == -150
baseSpeed == 40
speedStep == 5
speedInterval == 1000
(* minDistance of 35 px *)
minDistanceTenth == 3500 \div 10

minDistance == 3500
maxDistance == 6000
canvasWidth == 8000

(* ---- bounds of the model ---- *)
MaxTicks == 6
MaxClouds == 1
MaxPending == 2

(* dino, obstacles, clouds, score, speed, gameOver: the variables of lines  *)
(* 60-68 (dino.x is the constant dinoX; obstacles and clouds are the       *)
(* arrays, index 1 the oldest).                                            *)
(* pending: the requestAnimationFrame callbacks asked for and not yet run. *)
(* overFired: how often the game-over branch (lines 166-169: overlay,      *)
(*   sound) ran in the last update() that passed its guard.                *)
(* aborted: whether that update() ended by throwing at line 161.           *)
(* ticks: the update() bodies run since the initial state, which MaxTicks  *)
(*   bounds.                                                               *)
VARIABLES dino, obstacles, clouds, score, speed, gameOver,
          pending, overFired, aborted, ticks

vars == <<dino, obstacles, clouds, score, speed, gameOver,
          pending, overFired, aborted, ticks>>

(* the obstacle catalog of createObstacle *)
types == << [width |-> 200, height |-> 400],
            [width |-> 300, height |-> 600],
            [width |-> 450, height |-> 400] >>

(* the values Math.random() * (maxDistance - minDistance) + minDistance    *)
(* is drawn from: the two ends of its range decide every outcome of the    *)
(* comparison in canSpawnObstacle (the top end is what a draw next to 1    *)
(* rounds to).                                                             *)
DistanceDraws == {minDistance, maxDistance}

NoCloud == [none |-> TRUE]

(* the (y, size, speed) a created cloud may take; speed in tenths *)
CloudDraws == { [y |-> 200, size |-> 200, speed |-> 6], [y |-> 1100, size |-> 700, speed |-> 2] }

dinoStart == [y |-> groundY - dinoHeight, vy |-> 0, jump |-> FALSE]

(* the world as one record: what update(), jump() and the restart handler  *)
(* read and write                                                          *)
World == [dino |-> dino, obstacles |-> obstacles, clouds |-> clouds,
          score |-> score, speed |-> speed, gameOver |-> gameOver,
          pending |-> pending, overFired |-> overFired, aborted |-> aborted]

(* the state the declarations of lines 58-68 build; the call of update()   *)
(* that ends the script is the first callback to run                       *)
world0 == [dino |-> dinoStart, obstacles |-> << >>, clouds |-> << >>,
           score |-> 0, speed |-> baseSpeed, gameOver |-> FALSE,
           pending |-> 1, overFired |-> 0, aborted |-> FALSE]

(* Array.prototype.splice(i, 1) *)
splice(s, i) == [k \in 1..(Len(s) - 1) |-> IF k < i THEN s[k] ELSE s[k + 1]]

(* jump() without the airborne test *)
jumpAnytime(w) ==
  IF ~w.gameOver
  THEN [w EXCEPT !.dino = [@ EXCEPT !.vy = jumpVy, !.jump = TRUE]]
  ELSE w

(* jump(): lines 71-78 *)
jump(w) ==
  IF ~w.dino.jump /\ ~w.gameOver
  THEN [w EXCEPT !.dino = [@ EXCEPT !.vy = jumpVy, !.jump = TRUE]]
  ELSE w

(* createObstacle() placing every obstacle at the height of a 40 px one *)
createObstacleFixedY(t) ==
  [x |-> canvasWidth, y |-> groundY - types[1].height,
   width |-> types[t].width, height |-> types[t].height]

(* createObstacle(): t is Math.floor(Math.random() * types.length) + 1 *)
createObstacle(t) ==
  [x |-> canvasWidth, y |-> groundY - types[t].height,
   width |-> types[t].width, height |-> types[t].height]

(* canSpawnObstacle() true of an empty list only *)
canSpawnOnlyEmpty(obs, distance) == Len(obs) = 0

(* canSpawnObstacle() with > where line 113 has >= *)
canSpawnStrict(obs, distance) ==
  IF Len(obs) = 0 THEN TRUE
  ELSE canvasWidth - obs[Len(obs)].x > distance

(* canSpawnObstacle() holding a tenth of the drawn distance to be enough *)
canSpawnTenth(obs, distance) ==
  IF Len(obs) = 0 THEN TRUE
  ELSE canvasWidth - obs[Len(obs)].x >= distance \div 10

(* canSpawnObstacle(): distance is the value drawn at line 112 *)
canSpawnObstacle(obs, distance) ==
  IF Len(obs) = 0 THEN TRUE
  ELSE canvasWidth - obs[Len(obs)].x >= distance

(* createCloud(): c is the drawn (y, size, speed) *)
createCloud(c) == [x |-> canvasWidth, y |-> c.y, size |-> c.size, speed |-> c.speed]

(* physics without the clamp of lines 140-143 *)
physicsNoClamp(d) == [y |-> d.y + d.vy, vy |-> d.vy + gravity, jump |-> d.jump]

(* physics with the velocity raised before the position is moved *)
physicsVelocityFirst(d) ==
  LET vy1 == d.vy + gravity
      y1 == d.y + vy1
  IN IF y1 > groundY - dinoHeight
     THEN [y |-> groundY - dinoHeight, vy |-> vy1, jump |-> FALSE]
     ELSE [y |-> y1, vy |-> vy1, jump |-> d.jump]

(* physics with a clamp that leaves the airborne flag as it was *)
physicsNoLanding(d) ==
  LET y1 == d.y + d.vy
      vy1 == d.vy + gravity
  IN IF y1 > groundY - dinoHeight
     THEN [y |-> groundY - dinoHeight, vy |-> vy1, jump |-> d.jump]
     ELSE [y |-> y1, vy |-> vy1, jump |-> d.jump]

(* lines 138-143 *)
physics(d) ==
  LET y1 == d.y + d.vy
      vy1 == d.vy + gravity
  IN IF y1 > groundY - dinoHeight
     THEN [y |-> groundY - dinoHeight, vy |-> vy1, jump |-> FALSE]
     ELSE [y |-> y1, vy |-> vy1, jump |-> d.jump]

(* the retirement test with <= *)
offScreenTouching(x, width) == x + width <= 0

(* the retirement test of lines 149 and 156 *)
offScreen(x, width) == x + width < 0

(* the drift of a cloud in one tick, clouds[i].speed * speed (line 148);  *)
(* both factors are in tenths and the drawn speeds make the product whole *)
cloudDrift(c, spd) == (c.speed * spd) \div 10

(* the loop of lines 147-150, from index i down to 1 *)
RECURSIVE cloudLoop(_, _, _)
cloudLoop(cl, i, spd) ==
  IF i = 0 THEN cl
  ELSE LET moved == [cl EXCEPT ![i].x = @ - cloudDrift(cl[i], spd)]
           kept == IF offScreen(moved[i].x, moved[i].size) THEN splice(moved, i) ELSE moved
       IN cloudLoop(kept, i - 1, spd)

(* the collision test with <= on the obstacle's right edge *)
overlapsTouching(d, ob) ==
  /\ dinoX <= ob.x + ob.width
  /\ dinoX + dinoWidth > ob.x
  /\ d.y < ob.y + ob.height
  /\ d.y + dinoHeight > ob.y

(* the collision test with the actor's left edge where line 162 takes its  *)
(* right edge                                                              *)
overlapsLeftEdge(d, ob) ==
  /\ dinoX < ob.x + ob.width
  /\ dinoX > ob.x
  /\ d.y < ob.y + ob.height
  /\ d.y + dinoHeight > ob.y

(* the collision test of lines 161-164 *)
overlaps(d, ob) ==
  /\ dinoX < ob.x + ob.width
  /\ dinoX + dinoWidth > ob.x
  /\ d.y < ob.y + ob.height
  /\ d.y + dinoHeight > ob.y

(* the loop of lines 154-171, from index i down to 1.  acc holds the list, *)
(* gameOver, the number of times the game-over branch ran, and whether     *)
(* reading obstacles[i] after a splice found no element (ob is undefined   *)
(* and ob.x throws, which ends update() there).                            *)
RECURSIVE obstacleLoop(_, _, _, _)
obstacleLoop(acc, i, d, spd) ==
  IF i = 0 THEN acc
  ELSE LET moved == [acc.obs EXCEPT ![i].x = @ - spd]
           kept == IF offScreen(moved[i].x, moved[i].width) THEN splice(moved, i) ELSE moved
       IN IF i > Len(kept)
          THEN [acc EXCEPT !.obs = kept, !.threw = TRUE]
          ELSE LET hit == overlaps(d, kept[i])
               IN obstacleLoop([obs |-> kept,
                                gameOver |-> acc.gameOver \/ hit,
                                fired |-> acc.fired + (IF hit THEN 1 ELSE 0),
                                threw |-> FALSE],
                               i - 1, d, spd)

(* the speed raised on the tick after a multiple of speedInterval *)
nextSpeedLate(sc, spd) == IF (sc - 1) % speedInterval = 0 THEN spd + speedStep ELSE spd

(* line 176 *)
nextSpeed(sc, spd) == IF sc % speedInterval = 0 THEN spd + speedStep ELSE spd

(* the score and the speed left alone once the run is over *)
progressUnlessOver(w) ==
  IF w.gameOver THEN w
  ELSE [w EXCEPT !.score = w.score + 1, !.speed = nextSpeed(w.score + 1, w.speed)]

(* lines 174-176: the score and the speed *)
progress(w) ==
  [w EXCEPT !.score = w.score + 1, !.speed = nextSpeed(w.score + 1, w.speed)]

(* update() with the obstacles scrolled, retired and tested before the     *)
(* spawn check, the created obstacle left where it was created            *)
updateScrollFirst(w, r) ==
  LET d1 == physics(w.dino)
      cl1 == IF r.cloud = NoCloud THEN w.clouds
             ELSE Append(w.clouds, createCloud(r.cloud))
      cl2 == cloudLoop(cl1, Len(cl1), w.speed)
      lp == obstacleLoop([obs |-> w.obstacles, gameOver |-> FALSE, fired |-> 0, threw |-> FALSE],
                         Len(w.obstacles), d1, w.speed)
      ob2 == IF canSpawnObstacle(lp.obs, r.distance)
             THEN Append(lp.obs, createObstacle(r.type))
             ELSE lp.obs
      w2 == [w EXCEPT !.dino = d1, !.clouds = cl2, !.obstacles = ob2,
                      !.gameOver = lp.gameOver, !.overFired = lp.fired,
                      !.aborted = lp.threw]
  IN IF lp.threw THEN w2
     ELSE [progress(w2) EXCEPT !.pending = @ + 1]

(* update() past its guard: lines 137-179.  r holds the draws of this      *)
(* call: r.cloud (a cloud, or NoCloud when Math.random() >= 0.02),         *)
(* r.distance and r.type.  A call that throws in the obstacle loop keeps   *)
(* what it had written and neither scores nor asks for the next frame.     *)
updateRunning(w, r) ==
  LET d1 == physics(w.dino)
      cl1 == IF r.cloud = NoCloud THEN w.clouds
             ELSE Append(w.clouds, createCloud(r.cloud))
      cl2 == cloudLoop(cl1, Len(cl1), w.speed)
      ob1 == IF canSpawnObstacle(w.obstacles, r.distance)
             THEN Append(w.obstacles, createObstacle(r.type))
             ELSE w.obstacles
      lp == obstacleLoop([obs |-> ob1, gameOver |-> FALSE, fired |-> 0, threw |-> FALSE],
                         Len(ob1), d1, w.speed)
      w2 == [w EXCEPT !.dino = d1, !.clouds = cl2, !.obstacles = lp.obs,
                      !.gameOver = lp.gameOver, !.overFired = lp.fired,
                      !.aborted = lp.threw]
  IN IF lp.threw THEN w2
     ELSE [progress(w2) EXCEPT !.pending = @ + 1]

(* update() without its guard of line 135 *)
updateNoGuard(w, r) == updateRunning(w, r)

(* update(): lines 134-180 *)
update(w, r) == IF w.gameOver THEN w ELSE updateRunning(w, r)

(* the reset without the line that puts the actor on the ground *)
resetKeepY(w) ==
  [w EXCEPT !.score = 0, !.speed = baseSpeed, !.obstacles = << >>, !.clouds = << >>,
            !.dino = [@ EXCEPT !.vy = 0, !.jump = FALSE],
            !.gameOver = FALSE]

(* the reset of lines 86-93 *)
reset(w) ==
  [w EXCEPT !.score = 0, !.speed = baseSpeed, !.obstacles = << >>, !.clouds = << >>,
            !.dino = [@ EXCEPT !.y = groundY - dinoHeight, !.vy = 0, !.jump = FALSE],
            !.gameOver = FALSE]

(* the click handler of lines 85-96: the reset, then update() *)
restart(w, r) == update(reset(w), r)

(* ---- a scripted run: the states later specifications start from ---- *)

(* the player of a scripted run jumps when an obstacle is sc.lead ahead of *)
(* the actor's right edge                                                  *)
jumpDue(w, sc) ==
  \E i \in 1..Len(w.obstacles) :
     /\ w.obstacles[i].x >= dinoX + dinoWidth + sc.lead
     /\ w.obstacles[i].x < dinoX + dinoWidth + sc.lead + w.speed

(* the draws of a scripted run: the distance sc.distance, the obstacle     *)
(* types in turn, and the cloud sc.cloud in the tick that starts at score  *)
(* sc.cloudAt                                                              *)
scriptDraws(w, sc) ==
  [cloud |-> IF w.score = sc.cloudAt THEN sc.cloud ELSE NoCloud,
   distance |-> sc.distance,
   type |-> 1 + ((w.score + sc.shift) % Len(types))]

(* one display refresh of a scripted run: the key press if due, then the   *)
(* pending callback                                                        *)
scriptStep(w, sc) ==
  LET w1 == IF jumpDue(w, sc) THEN jump(w) ELSE w
  IN update([w1 EXCEPT !.pending = @ - 1], scriptDraws(w1, sc))

(* n display refreshes of a scripted run *)
RECURSIVE Replay(_, _, _)
Replay(w, n, sc) ==
  IF n = 0 THEN w
  ELSE IF n = 1 THEN scriptStep(w, sc)
  ELSE LET half == Replay(w, n \div 2, sc)
       IN IF half.score >= 0 THEN Replay(half, n - (n \div 2), sc) ELSE half

(* ---- the state machine ---- *)

Set(n) ==
  /\ dino' = n.dino
  /\ obstacles' = n.obstacles
  /\ clouds' = n.clouds
  /\ score' = n.score
  /\ speed' = n.speed
  /\ gameOver' = n.gameOver
  /\ pending' = n.pending
  /\ overFired' = n.overFired
  /\ aborted' = n.aborted

(* the draws one call of update() can make in world w: a type is drawn    *)
(* only when an obstacle is created, a distance only when the list is not  *)
(* empty; a cloud is drawn while the list is shorter than MaxClouds        *)
Draws(w) ==
  { r \in [cloud : (IF Len(w.clouds) < MaxClouds THEN CloudDraws \cup {NoCloud} ELSE {NoCloud}),
           distance : (IF Len(w.obstacles) = 0 THEN {minDistance} ELSE DistanceDraws),
           type : 1..Len(types)] :
      r.type = 1 \/ canSpawnObstacle(w.obstacles, r.distance) }

Start(w) ==
  /\ dino = w.dino
  /\ obstacles = w.obstacles
  /\ clouds = w.clouds
  /\ score = w.score
  /\ speed = w.speed
  /\ gameOver = w.gameOver
  /\ pending = w.pending
  /\ overFired = w.overFired
  /\ aborted = w.aborted
  /\ ticks = 0

Init == Start(world0)

(* a display refresh runs one pending requestAnimationFrame callback *)
Tick ==
  /\ pending > 0
  /\ IF gameOver
     THEN Set(update([World EXCEPT !.pending = pending - 1], [cloud |-> NoCloud, distance |-> minDistance, type |-> 1]))
          /\ UNCHANGED ticks
     ELSE /\ ticks < MaxTicks
          /\ \E r \in Draws(World) : Set(update([World EXCEPT !.pending = pending - 1], r))
          /\ ticks' = ticks + 1

(* a key press or touch *)
Jump ==
  /\ Set(jump(World))
  /\ UNCHANGED ticks

(* a click on the restart button *)
Restart ==
  /\ pending < MaxPending
  /\ ticks < MaxTicks
  /\ \E r \in Draws(reset(World)) : Set(restart(World, r))
  /\ ticks' = ticks + 1

Next == Tick \/ Jump \/ Restart

Spec == Init /\ [][Next]_vars

(* ---- play from later states of a run ---- *)

(* the scripted runs: short draws and a jump 20 px ahead of each obstacle; *)
(* the same with a cloud created in tick 129; a late jump; long draws; an  *)
(* early jump over a 30 px obstacle                                        *)
script0 == [shift |-> 0, distance |-> minDistance, lead |-> 200, cloudAt |-> -1, cloud |-> NoCloud]
scriptCloud == [script0 EXCEPT !.cloudAt = 128, !.cloud = [y |-> 200, size |-> 200, speed |-> 6]]
scriptLate == [script0 EXCEPT !.lead = 0]
scriptFar == [script0 EXCEPT !.distance = maxDistance]
scriptEarly == [script0 EXCEPT !.shift = 1, !.lead = 700]

(* the states play starts from: construction, and states of scripted runs  *)
(* just before an obstacle reaches the actor (175), before the actor's box *)
(* touches an obstacle's right edge (193), before the gap of the newest    *)
(* obstacle reaches minDistance (86) and maxDistance (147), before an      *)
(* obstacle and a cloud leave the screen (466), and before the score       *)
(* reaches speedInterval (996) and twice speedInterval (1996)             *)
Checkpoints ==
  { world0,
    Replay(world0, 175, scriptLate),
    Replay(world0, 193, scriptEarly),
    Replay(world0, 86, script0),
    Replay(world0, 147, scriptFar),
    Replay(world0, 466, scriptCloud),
    Replay(world0, 996, script0),
    Replay(world0, 1996, script0) }

InitPlay == \E w \in Checkpoints : Start(w)

SpecPlay == InitPlay /\ [][Next]_vars

(* ---- play along a jump ---- *)

(* the states of the scripted run script0 around its first jump, which is  *)
(* accepted before tick 173 and lands in tick 211: one before the jump and *)
(* one every MaxTicks ticks of the flight, up to the landing               *)
ArcCheckpoints ==
  { Replay(world0, 172 + 6 * k, script0) : k \in 0..7 }

InitArc == \E w \in ArcCheckpoints : Start(w)

SpecArc == InitArc /\ [][Next]_vars

(* ---- play at the end of a run without a jump ---- *)

(* a scripted run whose player never jumps (no obstacle is ever            *)
(* canvas.width ahead of the actor), the first obstacle of type 1 + s      *)
scriptIdle(s) == [script0 EXCEPT !.shift = s, !.lead = canvasWidth]

(* the run scriptIdle(0) ends in tick 178; the click on Restart after its  *)
(* last callback has run, with a first obstacle of type 2                  *)
restartedIdle ==
  restart(Replay(world0, 179, scriptIdle(0)),
          [cloud |-> NoCloud, distance |-> minDistance, type |-> 2])

(* construction, and runs without a jump shortly before their first        *)
(* obstacle reaches the actor: from construction with each type of first   *)
(* obstacle, with long draws, and from a Restart                           *)
IdleCheckpoints ==
  { world0,
    Replay(world0, 174, scriptIdle(0)),
    Replay(world0, 174, scriptIdle(1)),
    Replay(world0, 174, scriptIdle(2)),
    Replay(world0, 174, [scriptIdle(1) EXCEPT !.distance = maxDistance]),
    Replay(restartedIdle, 173, scriptIdle(2)) }

InitIdle == \E w \in IdleCheckpoints : Start(w)

SpecIdle == InitIdle /\ [][Next]_vars

(* ---- play around a retirement ---- *)

(* scripted runs shortly before their first obstacle leaves the screen     *)
(* (tick 206), with short and with long draws, and the run scriptCloud     *)
(* before its next retirements (tick 470)                                  *)
RetireCheckpoints ==
  { Replay(world0, 203, script0),
    Replay(world0, 203, scriptFar),
    Replay(world0, 466, scriptCloud) }

InitRetire == \E w \in RetireCheckpoints : Start(w)

SpecRetire == InitRetire /\ [][Next]_vars

(* ---- properties ---- *)

(* a callback that runs update() past its guard *)
RunningTick == Tick /\ ~gameOver

(* two boxes share interior points: actor box d against obstacle box ob *)
StrictOverlap(d, ob) ==
  /\ 500 < ob.x + ob.width
  /\ 500 + 400 > ob.x
  /\ d.y < ob.y + ob.height
  /\ d.y + 400 > ob.y

(* C1: a tick run while Running ends in GameOver exactly when an obstacle  *)
(* left in the list after the scroll and the retirement strictly overlaps  *)
(* the actor's box; Jump leaves the phase as it is and Restart never ends  *)
(* in GameOver.                                                            *)
C1_CollisionIffOverlap ==
  [][ /\ RunningTick =>
           (gameOver' <=> \E i \in 1..Len(obstacles') : StrictOverlap(dino', obstacles'[i]))
      /\ Jump => gameOver' = gameOver
      /\ Restart => ~gameOver' ]_vars

(* a tick has ended the run on an obstacle that overlaps the grounded actor *)
C1_Witness ==
  /\ gameOver
  /\ ~dino.jump
  /\ \E i \in 1..Len(obstacles) : StrictOverlap(dino, obstacles[i])

(* C2: the actor is never below the ground: y <= groundY - height = 220 *)
C2_GroundClamp == dino.y <= 2600 - 400

(* the actor has landed from a jump: 39 ticks of gravity on the launch     *)
(* velocity, clamped to the ground                                         *)
C2_Witness ==
  /\ dino.y = 2200
  /\ ~dino.jump
  /\ dino.vy = -150 + 39 * 8

(* C3: a Jump from the ground while Running sets vy to -15 and the         *)
(* airborne flag and nothing else; a Jump while airborne or in GameOver    *)
(* changes nothing.                                                        *)
C3_JumpFrame ==
  [][ Jump =>
        IF ~dino.jump /\ ~gameOver
        THEN /\ dino' = [dino EXCEPT !.vy = -150, !.jump = TRUE]
             /\ UNCHANGED <<obstacles, clouds, score, speed, gameOver, pending, overFired, aborted>>
        ELSE UNCHANGED vars ]_vars

(* a jump was accepted and a tick went by, so a second Jump finds the      *)
(* actor airborne                                                          *)
C3_Witness ==
  /\ dino.jump
  /\ dino.vy = -150 + 8
  /\ ~gameOver

(* C4 as claimed: a Restart in GameOver ends with score 0, speed 4, no     *)
(* obstacle, no cloud, the actor grounded at rest, and the phase Running.  *)
C4_RestartLeavesResetState ==
  [][ (gameOver /\ Restart) =>
        /\ score' = 0
        /\ speed' = 40
        /\ obstacles' = << >>
        /\ clouds' = << >>
        /\ dino' = [y |-> 2200, vy |-> 0, jump |-> FALSE]
        /\ ~gameOver' ]_vars

C6_SpeedLaw ==
  /\ [](speed = 40 + 5 * (score \div 1000))
  /\ [][speed' >= speed \/ (Restart /\ speed' = 40)]_vars

(* the speed was raised a second time, at score 2000 *)
C6_Witness ==
  /\ score >= 2000
  /\ speed = 50

(* C7: in GameOver a callback and a Jump change nothing of the actor, the  *)
(* lists, the score, the speed and the phase; only Restart leaves GameOver *)
C7_GameOverFrame ==
  [][ /\ (gameOver /\ (Tick \/ Jump)) =>
           UNCHANGED <<dino, obstacles, clouds, score, speed, gameOver>>
      /\ (gameOver /\ ~gameOver') => Restart ]_vars

(* the run ended in mid-air and every pending callback has run since *)
C7_Witness ==
  /\ gameOver
  /\ pending = 0
  /\ dino.jump

(* the obstacles of obs after a scroll by spd, without those then off the  *)
(* screen                                                                  *)
ScrolledObstacles(obs, spd) ==
  SelectSeq([i \in 1..Len(obs) |-> [obs[i] EXCEPT !.x = @ - spd]],
            LAMBDA o : o.x + o.width >= 0)

(* the clouds of cl after their drift at speed spd, likewise *)
ScrolledClouds(cl, spd) ==
  SelectSeq([i \in 1..Len(cl) |-> [cl[i] EXCEPT !.x = @ - (cl[i].speed * spd) \div 10]],
            LAMBDA c : c.x + c.size >= 0)

(* list new is list kept, or kept and one more element *)
KeptPlusNew(new, kept) ==
  \/ new = kept
  \/ /\ Len(new) = Len(kept) + 1
     /\ SubSeq(new, 1, Len(kept)) = kept

(* C8: no listed obstacle or cloud is off the screen (x + width < 0); in a *)
(* running tick every obstacle moves left by the speed of that tick and is *)
(* removed exactly when that makes x + width negative, and so for clouds   *)
(* with their drift.                                                       *)
C8_ScrollAndRetire ==
  /\ [](/\ \A i \in 1..Len(obstacles) : obstacles[i].x + obstacles[i].width >= 0
        /\ \A i \in 1..Len(clouds) : clouds[i].x + clouds[i].size >= 0)
  /\ [][RunningTick =>
          /\ KeptPlusNew(obstacles', ScrolledObstacles(obstacles, speed))
          /\ KeptPlusNew(clouds', ScrolledClouds(clouds, speed))]_vars

(* the first obstacle of the scripted run (20 wide) and its cloud have     *)
(* been removed in tick 470                                                *)
C8_Witness ==
  /\ score = 470
  /\ Len(obstacles) = 2
  /\ obstacles[1].width = 300
  /\ clouds = << >>

(* C9: consecutive obstacles are at least minDistance (350) apart, and a   *)
(* running tick creates an obstacle only if the list was empty or the      *)
(* newest obstacle was at least 350 from the right edge.                   *)
C9_SpawnGap ==
  /\ [](\A i \in 1..(Len(obstacles) - 1) : obstacles[i + 1].x - obstacles[i].x >= 3500)
  /\ [][(RunningTick /\ Len(obstacles') > Len(ScrolledObstacles(obstacles, speed))) =>
          \/ obstacles = << >>
          \/ canvasWidth - obstacles[Len(obstacles)].x >= 3500]_vars

(* a second obstacle was created at the first tick the gate can open: the  *)
(* older one is 352 px ahead                                               *)
C9_Witness ==
  /\ Len(obstacles) = 2
  /\ obstacles[2].x = canvasWidth - speed
  /\ obstacles[2].x - obstacles[1].x = 3520

(* C10: the game-over branch (overlay, sound) runs at most once in a tick *)
C10_GameOverOnce == overFired <= 1

(* the branch ran once in a tick that scanned several obstacles *)
C10_Witness ==
  /\ overFired = 1
  /\ gameOver
  /\ Len(obstacles) >= 2

(* the actor after a tick that moves it by mv: clamped to the ground and   *)
(* landed if that is below the ground, and the velocity raised by gravity  *)
MovedBy(d, mv) ==
  IF d.y + mv > 2200
  THEN [y |-> 2200, vy |-> d.vy + 8, jump |-> FALSE]
  ELSE [y |-> d.y + mv, vy |-> d.vy + 8, jump |-> d.jump]

(* C11 as claimed: a running tick raises the velocity by gravity and then  *)
(* moves the actor by the raised velocity, y + (vy + 0.8) before the       *)
(* clamp; a landing sets y to 220 and clears the airborne flag and leaves  *)
(* the velocity at vy + 0.8.                                               *)
C11_VelocityThenPosition ==
  [][RunningTick => dino' = MovedBy(dino, dino.vy + 8)]_vars

(* C11 amended: a running tick moves the actor by the velocity it had      *)
(* before the tick, y + vy before the clamp, and then raises the velocity  *)
(* by gravity; a landing sets y to 220 and clears the airborne flag and    *)
(* leaves the velocity at vy + 0.8.                                        *)
C11_PositionThenVelocity ==
  [][RunningTick => dino' = MovedBy(dino, dino.vy)]_vars

(* the first tick after an accepted Jump: the actor rose by the launch     *)
(* velocity, 15, and not by 14.2                                           *)
C11_Witness ==
  /\ dino.jump
  /\ dino.y = 2200 - 150
  /\ dino.vy = -150 + 8

(* C12 as claimed: whatever the order of callbacks, Jumps and Restarts, at *)
(* most one update callback is pending.                                    *)
C12_OneCallbackPending == pending <= 1

(* C13 as claimed: in a running tick the obstacles are scrolled and        *)
(* retired before the spawn check, so the gate reads the scrolled          *)
(* positions, and a created obstacle ends the tick at x = canvas.width.    *)
C13_ScrollRetireSpawn ==
  [][RunningTick =>
       LET kept == ScrolledObstacles(obstacles, speed)
       IN Len(obstacles') > Len(kept) =>
            /\ obstacles'[Len(obstacles')].x = canvasWidth
            /\ \/ kept = << >>
               \/ canvasWidth - kept[Len(kept)].x >= 3500]_vars

(* C13 amended: in a running tick the spawn check comes first and reads    *)
(* the positions the tick before left, then every obstacle, the created    *)
(* one included, is scrolled, retired and tested; a created obstacle ends  *)
(* the tick at x = canvas.width - speed, and none is created while the     *)
(* newest is less than 350 from the right edge before the scroll.          *)
C13_SpawnScrollRetire ==
  [][RunningTick =>
       LET kept == ScrolledObstacles(obstacles, speed)
       IN /\ Len(obstacles') > Len(kept) =>
               /\ obstacles'[Len(obstacles')].x = canvasWidth - speed
               /\ \/ obstacles = << >>
                  \/ canvasWidth - obstacles[Len(obstacles)].x >= 3500
          /\ (obstacles # << >> /\ canvasWidth - obstacles[Len(obstacles)].x < 3500) =>
               obstacles' = kept]_vars

(* tick 88 scrolled the first obstacle to a gap of 352 and created none    *)
(* (the gate had read 348); tick 89 created the second and scrolled both   *)
C13_Witness ==
  /\ score = 89
  /\ Len(obstacles) = 2
  /\ obstacles[2].x = canvasWidth - 40
  /\ obstacles[1].x = canvasWidth - 3560

(* C14: every listed obstacle has a (width, height) of the catalog         *)
(* {(20,40), (30,60), (45,40)} and stands on the ground, y + height = 260. *)
C14_CatalogOnGround ==
  \A i \in 1..Len(obstacles) :
     /\ <<obstacles[i].width, obstacles[i].height>> \in {<<200, 400>>, <<300, 600>>, <<450, 400>>}
     /\ obstacles[i].y + obstacles[i].height = 2600

(* obstacles of two heights are listed, the older ones scrolled well past  *)
(* where they were created                                                 *)
C14_Witness ==
  /\ Len(obstacles) >= 3
  /\ \E i, j \in 1..Len(obstacles) :
        /\ obstacles[i].height = 600 /\ obstacles[i].y = 2000
        /\ obstacles[j].height = 400 /\ obstacles[j].y = 2200
        /\ obstacles[i].x < canvasWidth \div 2

(* C15: whenever the airborne flag is false the actor is on the ground,    *)
(* y = 220; so every Jump that is accepted starts from the ground.         *)
C15_GroundedWhenNotAirborne ==
  /\ [](~dino.jump => dino.y = 2200)
  /\ [][(Jump /\ dino' # dino) => dino.y = 2200]_vars

(* the actor has landed from a jump and a further tick, its velocity       *)
(* still growing, has clamped it to the ground again                       *)
C15_Witness ==
  /\ ~dino.jump
  /\ dino.y = 2200
  /\ dino.vy = -150 + 40 * 8

(* C16: an accepted Jump is followed by a landing within 39 running ticks. *)
(* The velocity counts the ticks of a flight (-15 at the Jump, 0.8 more    *)
(* each running tick): the actor is never airborne with more than 38 of    *)
(* them behind it, and the 39th puts it on the ground at y = 220 with the  *)
(* airborne flag false.                                                    *)
C16_LandsWithin39 ==
  /\ [](dino.jump => (dino.vy >= -150 /\ dino.vy <= -150 + 38 * 8))
  /\ [][(Jump /\ dino' # dino) => dino'.vy = -150]_vars
  /\ [][(RunningTick /\ dino.jump) =>
          /\ dino'.vy = dino.vy + 8
          /\ dino.vy = -150 + 38 * 8 => (~dino'.jump /\ dino'.y = 2200)]_vars

(* the 39th tick of a flight has landed the actor, the phase is still      *)
(* Running and the next callback is pending: a new Jump can be accepted    *)
C16_Witness ==
  /\ ~dino.jump
  /\ dino.y = 2200
  /\ dino.vy = -150 + 39 * 8
  /\ ~gameOver
  /\ pending > 0

(* C17: a run in which no Jump is accepted reaches GameOver on its first   *)
(* obstacle.  The velocity tells such a run: it starts at 0 and every tick *)
(* adds 0.8, so vy = 0.8 * score, which no run holds again after a Jump    *)
(* set vy to -15.  The first obstacle is 4 * score left of canvas.width    *)
(* after each tick and overlaps the grounded actor in tick 178: a run      *)
(* without a jump is never Running with a score of 178 or more.            *)
C17_IdleRunEnds ==
  (dino.vy = 8 * score /\ score >= 178) =>
     /\ gameOver
     /\ score = 178
     /\ StrictOverlap(dino, obstacles[1])

(* a run without a jump has ended in tick 178 on a first obstacle 60 high *)
C17_Witness ==
  /\ gameOver
  /\ score = 178
  /\ dino.vy = 8 * 178
  /\ obstacles[1].height = 600
  /\ obstacles[1].x = canvasWidth - 178 * 40

(* C19: spawning is never starved.  A running tick whose spawn check finds *)
(* the newest obstacle 600 or more from canvas.width creates an obstacle;  *)
(* so between ticks the newest obstacle is less than 600 + speed from      *)
(* canvas.width and consecutive obstacles are less than 600 + speed apart. *)
C19_SpawnNotStarved ==
  /\ [](obstacles # << >> => canvasWidth - obstacles[Len(obstacles)].x < 6000 + speed)
  /\ [](\A i \in 1..(Len(obstacles) - 1) : obstacles[i + 1].x - obstacles[i].x < 6000 + speed)
  /\ [][(RunningTick /\ obstacles # << >> /\ canvasWidth - obstacles[Len(obstacles)].x >= 6000) =>
          /\ Len(obstacles') = Len(ScrolledObstacles(obstacles, speed)) + 1
          /\ obstacles'[Len(obstacles')].x = canvasWidth - speed]_vars

(* every draw of the distance kept the gate shut until the newest obstacle *)
(* was 600 from canvas.width; the tick that found it there created the     *)
(* next, 600 behind it                                                     *)
C19_Witness ==
  /\ Len(obstacles) = 2
  /\ obstacles[2].x = canvasWidth - speed
  /\ obstacles[2].x - obstacles[1].x = 6000

====
